---- MODULE Spec2Model ----
(***************************************************************************)
(* Model of desktop/main.js: the Electron main process that supervises the *)
(* Python backend.  The module state of main.js (pythonProcess,            *)
(* mainWindow, backendReady, isQuitting) is modelled together with the     *)
(* runtime objects its handlers act on: the spawned ChildProcess objects   *)
(* and their listeners, the promises returned by startBackend, the running *)
(* invocations of waitForBackendReady, and the application life cycle.     *)
(*                                                                         *)
(* One action is one turn of the event loop: a callback together with      *)
(* every promise continuation it makes runnable.  The 'spawn' and 'error'  *)
(* events of a child are emitted by Node on process.nextTick, that is,     *)
(* inside the turn that called spawn(): SpawnEvent and ErrorEvent are the  *)
(* remaining steps of that turn, and no other event is delivered while one *)
(* of them is due.                                                         *)
(***************************************************************************)
EXTENDS Integers, Sequences, FiniteSets

\* ---------------------------------------------------------------- constants

BACKEND_TIMEOUT_MS == 180000
BACKEND_CHECK_INTERVAL_MS == 1000
REQUEST_TIMEOUT_MS == 3000

NULL == 0

\* ------------------------------------------------------------------- bounds

\* startBackend() invocations made by a direct caller (specification SpecCalls)
MaxCalls == 2
\* 'activate' events delivered to the application
MaxActivations == 2
\* event-loop turns that still run between an accepted app.quit() and the
\* exit of the process
MaxQuitTurns == 4

\* ------------------------------------------------------------------- inputs

Platforms == {"darwin", "win32", "linux"}
AllCommands == {"$PYTHON", "python", "python3"}
\* what the operating system answers when a command is spawned: the child
\* runs, or the spawn fails with an error code.  EACCES stands for the codes
\* other than ENOENT that Node reports by an 'error' event (EACCES, EAGAIN,
\* EMFILE, ENFILE), ELOOP for all the others (ELOOP, ENOTDIR, ENAMETOOLONG,
\* ...), on which spawn() throws instead
SpawnResults == {"ok", "ENOENT", "EACCES", "ELOOP"}
SpawnThrows == {"ELOOP"}
\* a health request that outlasts the 3000 ms of line 89: request.setTimeout
\* is an idle timeout, re-armed by every byte the server sends
SlowRequestMs == 12500
\* how long one health request takes, whatever its outcome: answered or
\* refused at once, answered after a while, idle until the timeout of line 89,
\* or kept alive beyond it (the code sets no bound on that)
ReqDurations == {0, 2000, REQUEST_TIMEOUT_MS, SlowRequestMs}

VARIABLES
    env,            \* the machine the application runs on (never changes)
    lock,           \* the instances that hold the single-instance lock
    peer,           \* the other instance: "absent", or "running" with the lock
    gotSingleInstanceLock,  \* main.js:17  (FALSE until the module has loaded)
    pythonProcess,  \* main.js:12  NULL or the registered child
    mainWindow,     \* main.js:13  TRUE when the reference is non-null
    backendReady,   \* main.js:14
    isQuitting,     \* main.js:15
    appState,       \* "loading" (main.js not yet run), "running", "quitting"
                    \* (app.quit() accepted), "exited"
    windows,        \* BrowserWindow.getAllWindows().length
    loading,        \* a loadURL of the main window is in flight
    minimized,      \* mainWindow.isMinimized()
    child,          \* the ChildProcess objects created by spawn()
    ticks,          \* process.nextTick queue: the children whose 'spawn' or
                    \* 'error' event is due in the turn that is running
    call,           \* the promises returned by startBackend()
    wait,           \* the invocations of waitForBackendReady()
    launchPc,       \* position of launchApplication()
    quitTurns,      \* event-loop turns run since app.quit() was accepted
    activations,    \* 'activate' events handled so far
    dialogs,        \* dialog.showErrorBox calls, by origin
    kills,          \* ChildProcess.kill() calls
    uncaught,       \* the handlers an exception escaped from
    stopped,        \* children stopBackend() was applied to
    exitNotified,   \* children whose exit handler took the !isQuitting branch
    lastOp          \* what the last step was, where the state does not tell:
                    \* "userQuit" / "SIGINT" / "SIGTERM" after a quit request,
                    \* "peerLost" after the other instance was refused the lock

vars == <<env, lock, peer, gotSingleInstanceLock, pythonProcess, mainWindow, backendReady, isQuitting, appState,
          windows, loading, minimized, child, ticks, call, wait, launchPc,
          quitTurns, activations,
          dialogs, kills, uncaught, stopped, exitNotified, lastOp>>

\* --------------------------------------------------------------- identities

MaxCandidates == Cardinality(AllCommands)
Calls == 1..MaxCalls
Children == 1..(MaxCalls * MaxCandidates)
ChildId(k, i) == (k - 1) * MaxCandidates + i
CallOf(c) == ((c - 1) \div MaxCandidates) + 1
IdxOf(c) == ((c - 1) % MaxCandidates) + 1

\* wait 1 belongs to launchApplication, the others to 'activate' events
LaunchWait == 1
Waits == 1..(1 + MaxActivations)

\* main.js:144-152
candidateCommands ==
    (IF env.hasPython THEN <<"$PYTHON">> ELSE <<>>)
    \o (IF env.platform = "win32" THEN <<"python", "python3">>
                                  ELSE <<"python3", "python">>)

NoChild == [state |-> "none", command |-> "none", result |-> "none",
            alive |-> FALSE, onSpawn |-> FALSE,
            onError |-> FALSE, onExit |-> FALSE, onData |-> FALSE,
            killed |-> FALSE, exitCode |-> FALSE]
\* thrown: the error spawn() threw while the promise's candidates were tried
NoCall == [state |-> "none", err |-> "none", resolves |-> 0, rejects |-> 0,
           thrown |-> "none"]
NoWait == [pc |-> "idle", elapsed |-> 0, sinceExit |-> -1, exitInOp |-> FALSE,
           outcome |-> "none"]

\* the mutable state as one record, so that the handlers compose
Cur == [lock |-> lock, peer |-> peer,
        gotSingleInstanceLock |-> gotSingleInstanceLock,
        pythonProcess |-> pythonProcess, mainWindow |-> mainWindow,
        backendReady |-> backendReady, isQuitting |-> isQuitting,
        appState |-> appState, windows |-> windows, loading |-> loading,
        minimized |-> minimized,
        child |-> child, ticks |-> ticks, call |-> call, wait |-> wait,
        launchPc |-> launchPc,
        activations |-> activations, dialogs |-> dialogs, kills |-> kills,
        uncaught |-> uncaught, stopped |-> stopped,
        exitNotified |-> exitNotified, lastOp |-> "other"]

\* the handlers' writes
Sets(m) ==
    /\ lock' = m.lock
    /\ peer' = m.peer
    /\ gotSingleInstanceLock' = m.gotSingleInstanceLock
    /\ pythonProcess' = m.pythonProcess
    /\ mainWindow' = m.mainWindow
    /\ backendReady' = m.backendReady
    /\ isQuitting' = m.isQuitting
    /\ appState' = m.appState
    /\ windows' = m.windows
    /\ loading' = m.loading
    /\ minimized' = m.minimized
    /\ child' = m.child
    /\ ticks' = m.ticks
    /\ call' = m.call
    /\ wait' = m.wait
    /\ launchPc' = m.launchPc
    /\ activations' = m.activations
    /\ dialogs' = m.dialogs
    /\ kills' = m.kills
    /\ uncaught' = m.uncaught
    /\ stopped' = m.stopped
    /\ exitNotified' = m.exitNotified
    /\ lastOp' = m.lastOp
    /\ UNCHANGED env

\* one turn of the event loop ends in m
Becomes(m) ==
    /\ Sets(m)
    /\ quitTurns' = IF appState = "quitting" THEN quitTurns + 1 ELSE quitTurns

\* ---------------------------------------------------------------- handlers

\* stopBackend without the test of line 113
stopBackendNoGuard(m) ==
    IF m.pythonProcess # NULL
    THEN LET c == m.pythonProcess
         IN [m EXCEPT
               !.child[c].onSpawn = FALSE,
               !.child[c].onError = FALSE,
               !.child[c].onExit = FALSE,
               !.child[c].killed = @ \/ m.child[c].alive,
               !.kills = IF ~m.child[c].killed THEN @ + 1 ELSE @,
               !.stopped = @ \cup {c},
               !.pythonProcess = NULL,
               !.backendReady = FALSE]
    ELSE [m EXCEPT !.uncaught = @ \cup {"stopBackend"}]

\* stopBackend without the removeAllListeners() of line 114
stopBackendKeepListeners(m) ==
    IF m.pythonProcess # NULL
    THEN LET c == m.pythonProcess
         IN [m EXCEPT
               !.child[c].killed = @ \/ m.child[c].alive,
               !.kills = IF ~m.child[c].killed THEN @ + 1 ELSE @,
               !.stopped = @ \cup {c},
               !.pythonProcess = NULL,
               !.backendReady = FALSE]
    ELSE m

\* stopBackend without the kill of lines 115-121
stopBackendNoKill(m) ==
    IF m.pythonProcess # NULL
    THEN LET c == m.pythonProcess
         IN [m EXCEPT
               !.child[c].onSpawn = FALSE,
               !.child[c].onError = FALSE,
               !.child[c].onExit = FALSE,
               !.stopped = @ \cup {c},
               !.pythonProcess = NULL,
               !.backendReady = FALSE]
    ELSE m

\* main.js:112-125
stopBackend(m) ==
    IF m.pythonProcess # NULL
    THEN LET c == m.pythonProcess
             sent == ~m.child[c].killed
         IN [m EXCEPT
               !.child[c].onSpawn = FALSE,
               !.child[c].onError = FALSE,
               !.child[c].onExit = FALSE,
               !.child[c].killed = @ \/ m.child[c].alive,
               !.kills = IF sent THEN @ + 1 ELSE @,
               !.stopped = @ \cup {c},
               !.pythonProcess = NULL,
               !.backendReady = FALSE]
    ELSE m

\* the 'before-quit' handler without the stopBackend() of line 66
beforeQuitNoStop(m) == [m EXCEPT !.isQuitting = TRUE]

\* main.js:64-67
beforeQuit(m) == stopBackend([m EXCEPT !.isQuitting = TRUE])

\* app.quit(): 'before-quit' is emitted synchronously, once; the process
\* exits later (ProcessExit)
appQuit(m) ==
    IF m.appState = "running"
    THEN beforeQuit([m EXCEPT !.appState = "quitting"])
    ELSE m

showErrorBox(m, origin) == [m EXCEPT !.dialogs[origin] = @ + 1]

\* main.js:23-30: another instance was started; restore() and focus()
secondInstance(m) ==
    IF m.mainWindow THEN [m EXCEPT !.minimized = FALSE] ELSE m

\* main.js:70-75: the chunk is written to the process's own stdout
logBackendOutput(m) == m

\* main.js:127-130
showStartupError(m) == showErrorBox(m, "startup")

\* main.js:210-239
createMainWindow(m) ==
    IF m.mainWindow
    THEN m
    ELSE [m EXCEPT !.mainWindow = TRUE, !.windows = @ + 1, !.loading = TRUE]

resolve(m, k) ==
    [m EXCEPT !.call[k].resolves = @ + 1,
              !.call[k].state = IF @ = "pending" THEN "resolved" ELSE @]

reject(m, k, e) ==
    [m EXCEPT !.call[k].rejects = @ + 1,
              !.call[k].err = IF m.call[k].state = "pending" THEN e ELSE @,
              !.call[k].state = IF @ = "pending" THEN "rejected" ELSE @]

\* trySpawn with the bound of line 156 off by one: the last candidate is skipped
trySpawnOffByOne(m, k, i, r) ==
    IF i >= Len(candidateCommands)
    THEN reject(m, k, "NoInterpreter")
    ELSE IF r \in SpawnThrows
    THEN [m EXCEPT !.call[k].thrown = r]
    ELSE [m EXCEPT !.child[ChildId(k, i)] =
            [state |-> "pending", command |-> candidateCommands[i],
             result |-> r, alive |-> (r = "ok"),
             onSpawn |-> TRUE, onError |-> TRUE, onExit |-> FALSE,
             onData |-> FALSE, killed |-> FALSE, exitCode |-> FALSE],
                   !.ticks = Append(@, ChildId(k, i))]

\* main.js:155-170, 202-203; r is what the operating system answers to
\* spawn(), which queues the child's 'spawn' or 'error' event on nextTick or
\* throws: then there is no child, and the exception leaves trySpawn
trySpawn(m, k, i, r) ==
    IF i > Len(candidateCommands)
    THEN reject(m, k, "NoInterpreter")
    ELSE IF r \in SpawnThrows
    THEN [m EXCEPT !.call[k].thrown = r]
    ELSE [m EXCEPT !.child[ChildId(k, i)] =
            [state |-> "pending", command |-> candidateCommands[i],
             result |-> r, alive |-> (r = "ok"),
             onSpawn |-> TRUE, onError |-> TRUE, onExit |-> FALSE,
             onData |-> FALSE, killed |-> FALSE, exitCode |-> FALSE],
                   !.ticks = Append(@, ChildId(k, i))]

\* an exception thrown by the spawn() of line 162 leaves the 'error' listener
\* that called trySpawn (line 175): nothing catches it, and neither resolve()
\* nor reject() is called.  Electron reports an uncaught exception of the
\* main process and keeps the process running.
escapes(m, k) ==
    IF m.call[k].thrown # "none" /\ m.call[k].state = "pending"
    THEN [m EXCEPT !.uncaught = @ \cup {"handleError"}]
    ELSE m

\* handleError falling through to reject() after the retry of line 175
handleErrorRejectsToo(m, c, r) ==
    LET m1 == [m EXCEPT !.child[c].onSpawn = FALSE, !.child[c].onError = FALSE]
    IN IF m.child[c].result = "ENOENT"
       THEN reject(escapes(trySpawn(m1, CallOf(c), IdxOf(c) + 1, r), CallOf(c)),
                   CallOf(c), m.child[c].result)
       ELSE reject(m1, CallOf(c), m.child[c].result)

\* main.js:172-179
handleError(m, c, r) ==
    LET m1 == [m EXCEPT !.child[c].onSpawn = FALSE, !.child[c].onError = FALSE]
    IN IF m.child[c].result = "ENOENT"
       THEN escapes(trySpawn(m1, CallOf(c), IdxOf(c) + 1, r), CallOf(c))
       ELSE reject(m1, CallOf(c), m.child[c].result)

\* handleSpawn without the assignment of line 183
handleSpawnUnregistered(m, c) ==
    resolve([m EXCEPT !.child[c].onError = FALSE,
                      !.child[c].onSpawn = FALSE,
                      !.child[c].onData = TRUE,
                      !.child[c].onExit = TRUE,
                      !.backendReady = FALSE],
            CallOf(c))

\* handleSpawn without the child.on('exit', ...) of lines 189-197
handleSpawnNoExitListener(m, c) ==
    resolve([m EXCEPT !.child[c].onError = FALSE,
                      !.child[c].onSpawn = FALSE,
                      !.child[c].onData = TRUE,
                      !.pythonProcess = c,
                      !.backendReady = FALSE],
            CallOf(c))

\* main.js:181-200
handleSpawn(m, c) ==
    resolve([m EXCEPT !.child[c].onError = FALSE,
                      !.child[c].onSpawn = FALSE,
                      !.child[c].onData = TRUE,
                      !.child[c].onExit = TRUE,
                      !.pythonProcess = c,
                      !.backendReady = FALSE],
            CallOf(c))

\* the exit handler without the app.quit() of line 195
exitHandlerNoQuit(m, c) ==
    LET m1 == [m EXCEPT !.pythonProcess = NULL, !.backendReady = FALSE]
    IN IF ~m1.isQuitting
       THEN showErrorBox([m1 EXCEPT !.exitNotified = @ \cup {c}], "exit")
       ELSE m1

\* main.js:189-197
exitHandler(m, c) ==
    LET m1 == [m EXCEPT !.pythonProcess = NULL, !.backendReady = FALSE]
    IN IF ~m1.isQuitting
       THEN appQuit(showErrorBox([m1 EXCEPT !.exitNotified = @ \cup {c}], "exit"))
       ELSE m1

\* main.js:132-208
startBackend(m, k, r) ==
    IF m.pythonProcess # NULL
    THEN [m EXCEPT !.call[k] = [NoCall EXCEPT !.state = "resolved"]]
    ELSE IF ~env.scriptExists
    THEN [m EXCEPT !.call[k] =
            [NoCall EXCEPT !.state = "rejected", !.err = "EntryPointNotFound"]]
    ELSE LET m1 == trySpawn([m EXCEPT !.call[k] =
                                [NoCall EXCEPT !.state = "pending"]], k, 1, r)
         IN \* an exception thrown in the executor of line 154 rejects the
            \* promise, without a call of reject()
            IF m1.call[k].thrown # "none" /\ m1.call[k].state = "pending"
            THEN [m1 EXCEPT !.call[k].state = "rejected",
                            !.call[k].err = m1.call[k].thrown]
            ELSE m1

\* main.js:95-97: a new invocation; its first loop test passes and the first
\* health request is issued
waitForBackendReady(m, w) ==
    [m EXCEPT !.wait[w] = [NoWait EXCEPT !.pc = "ping"]]

\* the catch of launchApplication without the app.quit() of line 248
launchFailedNoQuit(m) == showStartupError([m EXCEPT !.launchPc = "failed"])

\* main.js:246-249
launchFailed(m) == appQuit(showStartupError([m EXCEPT !.launchPc = "failed"]))

\* main.js:101, 104, 109: an invocation of waitForBackendReady returns or
\* throws.  The invocation's clock is kept only when it timed out.
waitReturns(m, w, outcome) ==
    [m EXCEPT !.wait[w].pc = "done",
              !.wait[w].outcome = outcome,
              !.wait[w].exitInOp = FALSE,
              !.wait[w].elapsed = IF outcome = "timeout" THEN @ ELSE 0]

\* the caller of an invocation that has returned or thrown continues:
\* launchApplication (main.js:244-249) or the 'activate' handler
\* (main.js:43-52)
waitSettled(m, w) ==
    IF m.wait[w].pc # "done"
    THEN m
    ELSE IF w = LaunchWait
    THEN IF m.wait[w].outcome = "ready"
         THEN [createMainWindow(m) EXCEPT !.launchPc = "done"]
         ELSE launchFailed(m)
    ELSE IF m.wait[w].outcome = "ready"
         THEN IF m.windows = 0 THEN createMainWindow(m) ELSE m
         ELSE appQuit(showStartupError(m))

\* main.js:241-245: launchApplication continues once startBackend() settled
resumeLaunch(m) ==
    IF m.launchPc = "awaitStart"
    THEN CASE m.call[1].state = "resolved" ->
                 waitForBackendReady([m EXCEPT !.launchPc = "awaitReady"], LaunchWait)
           [] m.call[1].state = "rejected" -> launchFailed(m)
           [] OTHER -> m
    ELSE m

\* time d passes for invocation w; r of it lies after the child's exit when the
\* child exited during the operation that now completes
elapse(m, w, d, r) ==
    [m EXCEPT !.wait[w].elapsed = @ + d,
              !.wait[w].sinceExit =
                  IF @ < 0 THEN @
                  ELSE IF m.wait[w].exitInOp THEN @ + r ELSE @ + d,
              !.wait[w].exitInOp = FALSE]

\* the success branch without the assignment of line 100
pingSucceededNoFlag(m, w) == waitReturns(m, w, "ready")

\* main.js:99-101
pingSucceeded(m, w) ==
    waitReturns([m EXCEPT !.backendReady = TRUE], w, "ready")

\* main.js:102-106
pingFailed(m, w) ==
    IF m.pythonProcess = NULL \/ m.child[m.pythonProcess].exitCode
    THEN waitReturns(m, w, "exited")
    ELSE [m EXCEPT !.wait[w].pc = "sleep"]

\* main.js:106, 97, 109: the sleep ends and the loop test runs
sleepDone(m, w) ==
    IF m.wait[w].elapsed < BACKEND_TIMEOUT_MS
    THEN [m EXCEPT !.wait[w].pc = "ping"]
    ELSE waitReturns(m, w, "timeout")

\* app.requestSingleInstanceLock() as main.js:17 calls it: granted when no
\* running instance holds the lock
requestSingleInstanceLock(holders) == holders = {}

\* the top level of main.js without the test of line 19: the instance goes on
\* whatever requestSingleInstanceLock() returned
moduleLoadIgnoresLock(m, i) ==
    LET got == requestSingleInstanceLock(m.lock)
    IN IF i = "self"
       THEN [m EXCEPT !.gotSingleInstanceLock = got,
                      !.lock = IF got THEN {i} ELSE @,
                      !.appState = "running"]
       ELSE [m EXCEPT !.lock = IF got THEN {i} ELSE @,
                      !.peer = "running",
                      !.lastOp = IF got THEN "other" ELSE "peerLost"]

\* main.js:17-21, run by instance i: without the lock the instance calls
\* app.quit() and process.exit(0) before any handler is registered
moduleLoad(m, i) ==
    LET got == requestSingleInstanceLock(m.lock)
    IN IF i = "self"
       THEN [m EXCEPT !.gotSingleInstanceLock = got,
                      !.lock = IF got THEN {i} ELSE @,
                      !.appState = IF got THEN "running" ELSE "exited"]
       ELSE [m EXCEPT !.lock = IF got THEN {i} ELSE @,
                      !.peer = IF got THEN "running" ELSE "absent",
                      !.lastOp = IF got THEN "other" ELSE "peerLost"]

\* ----------------------------------------------------------------- initial

Envs == [platform : Platforms, hasPython : BOOLEAN, scriptExists : BOOLEAN]

\* two instances have been started and neither has run main.js yet; the
\* variables of main.js:12-15 have their initial values
Init ==
    /\ env \in Envs
    /\ lock = {}
    /\ peer = "absent"
    /\ gotSingleInstanceLock = FALSE
    /\ pythonProcess = NULL
    /\ mainWindow = FALSE
    /\ backendReady = FALSE
    /\ isQuitting = FALSE
    /\ appState = "loading"
    /\ windows = 0
    /\ loading = FALSE
    /\ minimized = FALSE
    /\ child = [c \in Children |-> NoChild]
    /\ ticks = <<>>
    /\ call = [k \in Calls |-> NoCall]
    /\ wait = [w \in Waits |-> NoWait]
    /\ launchPc = "notStarted"
    /\ quitTurns = 0
    /\ activations = 0
    /\ dialogs = [exit |-> 0, startup |-> 0, load |-> 0]
    /\ kills = 0
    /\ uncaught = {}
    /\ stopped = {}
    /\ exitNotified = {}
    /\ lastOp = "none"

\* the process has not exited: the event loop still delivers events
Alive == appState \in {"running", "quitting"}

\* ----------------------------------------------------------------- actions

\* main.js:12-21: this instance runs the top level of main.js
ModuleLoad ==
    /\ appState = "loading"
    /\ Sets(moduleLoad(Cur, "self"))
    /\ UNCHANGED quitTurns

\* the other instance, started at about the same time (before this one's
\* application is ready), runs the top level of main.js; when it is refused
\* the lock it has terminated by the end of the step
PeerLoad ==
    /\ peer = "absent"
    /\ launchPc = "notStarted"
    /\ Sets(moduleLoad(Cur, "peer"))
    /\ UNCHANGED quitTurns

\* main.js:32-36: app.whenReady() resolves and launchApplication() starts
WhenReady ==
    /\ Alive
    /\ quitTurns < MaxQuitTurns
    /\ ticks = <<>>
    /\ launchPc = "notStarted"
    /\ \E r \in SpawnResults :
         Becomes(resumeLaunch(
                   startBackend([Cur EXCEPT !.launchPc = "awaitStart"], 1, r)))

\* the turn that is running goes on with its next process.nextTick callback:
\* the 'spawn' event of child c is emitted
SpawnEvent(c) ==
    /\ Alive
    /\ ticks # <<>>
    /\ Head(ticks) = c
    /\ child[c].alive
    /\ LET m1 == [Cur EXCEPT !.child[c].state = "running", !.ticks = Tail(@)]
       IN Sets(resumeLaunch(IF child[c].onSpawn THEN handleSpawn(m1, c) ELSE m1))
    /\ UNCHANGED quitTurns

\* the turn that is running goes on with its next process.nextTick callback:
\* the 'error' event of child c is emitted, the spawn failed
ErrorEvent(c) ==
    /\ Alive
    /\ ticks # <<>>
    /\ Head(ticks) = c
    /\ ~child[c].alive
    /\ \E r \in SpawnResults :
         LET m1 == [Cur EXCEPT !.child[c].state = "failed", !.ticks = Tail(@)]
         IN Sets(resumeLaunch(IF child[c].onError THEN handleError(m1, c, r)
                                                  ELSE m1))
    /\ UNCHANGED quitTurns

\* child c terminates, with an exit code (exitCode becomes non-null) or by a
\* signal (exitCode stays null), and 'exit' is emitted
ChildExit(c) ==
    /\ Alive
    /\ quitTurns < MaxQuitTurns
    /\ ticks = <<>>
    /\ child[c].state = "running"
    /\ \E withCode \in BOOLEAN :
       LET m1 == [Cur EXCEPT
                    !.child[c].state = "exited",
                    !.child[c].alive = FALSE,
                    !.child[c].exitCode = withCode,
                    !.wait = [w \in Waits |->
                                IF @[w].pc \in {"ping", "sleep"} /\ @[w].sinceExit < 0
                                THEN [@[w] EXCEPT !.sinceExit = 0, !.exitInOp = TRUE]
                                ELSE @[w]]]
       IN Becomes(IF child[c].onExit THEN exitHandler(m1, c) ELSE m1)

\* main.js:186-187: child c writes a chunk to stdout or stderr and the 'data'
\* listener consumes it; the listeners are on the streams, which
\* removeAllListeners() on the child does not touch
ChildOutput(c) ==
    /\ Alive
    /\ quitTurns < MaxQuitTurns
    /\ ticks = <<>>
    /\ child[c].state = "running"
    /\ child[c].onData
    /\ Cur = logBackendOutput(Cur)
    /\ UNCHANGED vars

\* main.js:79-82: the health request of invocation w is answered 2xx/3xx
PingSucceeded(w) ==
    /\ Alive
    /\ quitTurns < MaxQuitTurns
    /\ ticks = <<>>
    /\ wait[w].pc = "ping"
    /\ \E d \in ReqDurations :
         \E r \in (IF wait[w].exitInOp THEN {0, d} ELSE {d}) :
            Becomes(waitSettled(pingSucceeded(elapse(Cur, w, d, r), w), w))

\* main.js:83-91: the health request fails (refused, bad status, timed out)
PingFailed(w) ==
    /\ Alive
    /\ quitTurns < MaxQuitTurns
    /\ ticks = <<>>
    /\ wait[w].pc = "ping"
    /\ \E d \in ReqDurations :
         \E r \in (IF wait[w].exitInOp THEN {0, d} ELSE {d}) :
            Becomes(waitSettled(pingFailed(elapse(Cur, w, d, r), w), w))

\* main.js:106: the timer of the inter-poll sleep fires
SleepDone(w) ==
    /\ Alive
    /\ quitTurns < MaxQuitTurns
    /\ ticks = <<>>
    /\ wait[w].pc = "sleep"
    /\ \E r \in (IF wait[w].exitInOp THEN {0, BACKEND_CHECK_INTERVAL_MS}
                                     ELSE {BACKEND_CHECK_INTERVAL_MS}) :
         Becomes(waitSettled(sleepDone(elapse(Cur, w, BACKEND_CHECK_INTERVAL_MS, r),
                                       w), w))

\* the 'activate' handler without the test of line 40
ActivateNoReadyTest ==
    /\ Alive
    /\ quitTurns < MaxQuitTurns
    /\ ticks = <<>>
    /\ env.platform = "darwin"
    /\ launchPc \in {"done", "failed"}
    /\ activations < MaxActivations
    /\ windows = 0
    /\ Becomes(createMainWindow([Cur EXCEPT !.activations = @ + 1]))

\* main.js:38-55: 'activate' (macOS), registered once launchApplication is over
Activate ==
    /\ Alive
    /\ quitTurns < MaxQuitTurns
    /\ ticks = <<>>
    /\ env.platform = "darwin"
    /\ launchPc \in {"done", "failed"}
    /\ activations < MaxActivations
    /\ windows = 0
    /\ LET m1 == [Cur EXCEPT !.activations = @ + 1]
       IN Becomes(IF backendReady
                  THEN createMainWindow(m1)
                  ELSE waitForBackendReady(m1, 1 + m1.activations))

\* main.js:236-238 and 58-62: the window is closed; 'window-all-closed' is
\* emitted unless the application is quitting
WindowClosed ==
    /\ Alive
    /\ quitTurns < MaxQuitTurns
    /\ ticks = <<>>
    /\ windows > 0
    /\ LET m1 == [Cur EXCEPT !.mainWindow = FALSE, !.windows = @ - 1,
                             !.loading = FALSE, !.minimized = FALSE]
       IN Becomes(IF m1.windows = 0 /\ appState = "running"
                     /\ env.platform # "darwin"
                  THEN appQuit(m1) ELSE m1)

\* the user minimizes the main window
Minimize ==
    /\ Alive
    /\ quitTurns < MaxQuitTurns
    /\ ticks = <<>>
    /\ mainWindow
    /\ ~minimized
    /\ Becomes([Cur EXCEPT !.minimized = TRUE])

\* main.js:23-30: 'second-instance' is emitted in the instance that holds the
\* lock when another instance asks for it
SecondInstance ==
    /\ Alive
    /\ quitTurns < MaxQuitTurns
    /\ ticks = <<>>
    /\ gotSingleInstanceLock
    /\ mainWindow
    /\ Becomes(secondInstance(Cur))

\* main.js:228-230: loadURL rejects
LoadFailed ==
    /\ Alive
    /\ quitTurns < MaxQuitTurns
    /\ ticks = <<>>
    /\ loading
    /\ Becomes(showErrorBox([Cur EXCEPT !.loading = FALSE], "load"))

\* the user quits the application (menu, Cmd+Q): app.quit()
UserQuit ==
    /\ appState = "running"
    /\ ticks = <<>>
    /\ Becomes([appQuit(Cur) EXCEPT !.lastOp = "userQuit"])

\* main.js:258-260
SIGINT ==
    /\ appState = "running"
    /\ ticks = <<>>
    /\ Becomes([appQuit(Cur) EXCEPT !.lastOp = "SIGINT"])

\* main.js:262-264
SIGTERM ==
    /\ appState = "running"
    /\ ticks = <<>>
    /\ Becomes([appQuit(Cur) EXCEPT !.lastOp = "SIGTERM"])

\* main.js:254-256: the process exits; its 'exit' handler runs, and the
\* single-instance lock is released with the process
ProcessExit ==
    /\ appState = "quitting"
    /\ ticks = <<>>
    /\ Becomes([stopBackend(Cur) EXCEPT !.appState = "exited",
                                        !.lock = @ \ {"self"}])

Next ==
    \/ ModuleLoad
    \/ PeerLoad
    \/ WhenReady
    \/ \E c \in Children : SpawnEvent(c)
    \/ \E c \in Children : ErrorEvent(c)
    \/ \E c \in Children : ChildExit(c)
    \/ \E c \in Children : ChildOutput(c)
    \/ \E w \in Waits : PingSucceeded(w)
    \/ \E w \in Waits : PingFailed(w)
    \/ \E w \in Waits : SleepDone(w)
    \/ Activate
    \/ WindowClosed
    \/ Minimize
    \/ SecondInstance
    \/ LoadFailed
    \/ UserQuit
    \/ SIGINT
    \/ SIGTERM
    \/ ProcessExit

Spec == Init /\ [][Next]_vars

\* ------------------------------------------------- direct calls (SpecCalls)

\* a caller invokes startBackend(), within whatever turn is running; k is the
\* next unused promise
CallStartBackend ==
    /\ Alive
    /\ \E k \in Calls :
         /\ call[k].state = "none"
         /\ \A j \in Calls : j < k => call[j].state # "none"
         /\ \E r \in SpawnResults : Sets(startBackend(Cur, k, r))
    /\ UNCHANGED quitTurns

\* a caller invokes stopBackend(), within whatever turn is running
CallStopBackend ==
    /\ Alive
    /\ Sets(stopBackend(Cur))
    /\ UNCHANGED quitTurns

\* 'before-quit' is emitted
BeforeQuit ==
    /\ appState = "running"
    /\ ticks = <<>>
    /\ Becomes(appQuit(Cur))

NextCalls ==
    \/ ModuleLoad
    \/ CallStartBackend
    \/ CallStopBackend
    \/ BeforeQuit
    \/ \E c \in Children : SpawnEvent(c)
    \/ \E c \in Children : ErrorEvent(c)
    \/ \E c \in Children : ChildExit(c)

SpecCalls == Init /\ [][NextCalls]_vars

\* ---- the application, not re-activated, with stopBackend() also called directly

NextStop ==
    \/ ModuleLoad
    \/ PeerLoad
    \/ WhenReady
    \/ \E c \in Children : SpawnEvent(c)
    \/ \E c \in Children : ErrorEvent(c)
    \/ \E c \in Children : ChildExit(c)
    \/ \E c \in Children : ChildOutput(c)
    \/ \E w \in Waits : PingSucceeded(w)
    \/ \E w \in Waits : PingFailed(w)
    \/ \E w \in Waits : SleepDone(w)
    \/ WindowClosed
    \/ Minimize
    \/ SecondInstance
    \/ LoadFailed
    \/ UserQuit
    \/ SIGINT
    \/ SIGTERM
    \/ ProcessExit
    \/ CallStopBackend

SpecStop == Init /\ [][NextStop]_vars

\* ------------------------------------------------------------------ claims

AliveChildren == {c \in Children : child[c].alive}
ChildrenOf(k) == {c \in Children : CallOf(c) = k}
Spawned(k) == {c \in ChildrenOf(k) : child[c].state # "none"}
ErrorDialogs == dialogs.exit + dialogs.startup

\* C1: for any sequence of startBackend() calls, also a second call made while
\* the first child's 'spawn' event is pending, at most one backend child is
\* alive at any instant.
C1_AtMostOneChildAlive == Cardinality(AliveChildren) <= 1

\* C2: when the spawn of candidate i fails with an error other than ENOENT,
\* reported by the child's 'error' event or thrown by spawn() itself, the
\* launch rejects with that error (launchApplication fails) and no candidate
\* after i is ever spawned.
C2_NonEnoentIsFatal ==
    /\ \A c \in Children :
          (child[c].state = "failed" /\ child[c].result # "ENOENT")
          => /\ call[CallOf(c)].state = "rejected"
             /\ call[CallOf(c)].err = child[c].result
             /\ launchPc = "failed"
             /\ \A d \in ChildrenOf(CallOf(c)) :
                   IdxOf(d) > IdxOf(c) => child[d].state = "none"
    /\ \A k \in Calls :
          call[k].thrown # "none"
          => /\ call[k].state = "rejected"
             /\ call[k].err = call[k].thrown
             /\ launchPc = "failed"
             /\ \A d \in ChildrenOf(k) :
                   child[d].state # "none"
                   => child[d].state = "failed" /\ child[d].result = "ENOENT"

\* C3: candidates are attempted in list order, each only after the previous one
\* failed with ENOENT; when the launch resolves, the one candidate that spawned
\* is the registered child, it is the only child alive, and no later candidate
\* was attempted.
C3_InOrder ==
    \A c \in Children :
        child[c].state # "none"
        => /\ child[c].command = candidateCommands[IdxOf(c)]
           /\ \A d \in ChildrenOf(CallOf(c)) :
                 IdxOf(d) < IdxOf(c)
                 => child[d].state = "failed" /\ child[d].result = "ENOENT"

C3_ResolvedByFirstSpawned ==
    call[1].state = "resolved"
    => \E c \in Spawned(1) :
          /\ child[c].result = "ok"
          /\ child[c].state \in {"running", "exited"}
          /\ \A d \in Spawned(1) : IdxOf(d) <= IdxOf(c)

C3_RegisteredAtResolve ==
    (call[1].state = "pending" /\ call'[1].state = "resolved")
    => \E c \in ChildrenOf(1) :
          /\ child[c].state = "pending"
          /\ pythonProcess' = c
          /\ {d \in Children : child'[d].alive} = {c}

C3_FirstSpawnedCandidateWins ==
    /\ [](C3_InOrder /\ C3_ResolvedByFirstSpawned)
    /\ [][C3_RegisteredAtResolve]_vars

C3_Witness ==
    /\ call[1].state = "resolved"
    /\ child[ChildId(1, 1)].result = "ENOENT"
    /\ child[ChildId(1, 2)].state = "running"
    /\ pythonProcess = ChildId(1, 2)
    /\ AliveChildren = {ChildId(1, 2)}

\* C4: every candidate failed with ENOENT exactly when startBackend rejected
\* with the no-interpreter error; then all candidates were tried, no child is
\* alive and pythonProcess is null.
C4_NoInterpreterFound ==
    LET tried == {ChildId(1, i) : i \in 1..Len(candidateCommands)}
        allEnoent == \A c \in tried :
                        child[c].state = "failed" /\ child[c].result = "ENOENT"
    IN /\ allEnoent => (call[1].state = "rejected" /\ call[1].err = "NoInterpreter")
       /\ call[1].err = "NoInterpreter"
          => /\ call[1].state = "rejected"
             /\ allEnoent
             /\ AliveChildren = {}
             /\ pythonProcess = NULL

C4_Witness ==
    /\ call[1].state = "rejected"
    /\ call[1].err = "NoInterpreter"
    /\ launchPc = "failed"

\* C5: a wait that ends timed out ends no earlier than BACKEND_TIMEOUT_MS after
\* it started and no later than BACKEND_TIMEOUT_MS plus one poll interval.
C5_TimeoutWithinOneInterval ==
    \A w \in Waits :
        wait[w].outcome = "timeout"
        => /\ wait[w].elapsed >= BACKEND_TIMEOUT_MS
           /\ wait[w].elapsed <= BACKEND_TIMEOUT_MS + BACKEND_CHECK_INTERVAL_MS

\* C6: when the child exits while a wait is running, the wait ends with the
\* child-exited outcome within one poll interval of the exit.
C6_ExitEndsWaitPromptly ==
    \A w \in Waits :
        (wait[w].pc = "done" /\ wait[w].sinceExit >= 0)
        => /\ wait[w].outcome = "exited"
           /\ wait[w].sinceExit <= BACKEND_CHECK_INTERVAL_MS

\* C7: stopBackend() with a registered child leaves pythonProcess null and
\* backendReady false and detaches the exit handler; the termination of a
\* stopped child never shows the unexpected-exit dialog nor quits the
\* application from the exit handler, whether or not isQuitting was set.
C7_StopClears ==
    (pythonProcess # NULL /\ stopped' # stopped)
    => /\ stopped' = stopped \cup {pythonProcess}
       /\ pythonProcess' = NULL
       /\ backendReady' = FALSE
       /\ ~child'[pythonProcess].onExit

C7_StoppedChildExitsSilently ==
    /\ [][C7_StopClears]_vars
    /\ [](stopped \cap exitNotified = {})

C7_Witness ==
    \E c \in stopped :
        /\ child[c].state = "exited"
        /\ ~isQuitting
        /\ dialogs.exit = 0

\* C8: stopBackend() with no child registered raises no error, sends no kill
\* and changes none of pythonProcess, backendReady, isQuitting, mainWindow nor
\* any child.
C8_StopWithoutChild ==
    pythonProcess = NULL
    => LET m == stopBackend(Cur)
       IN /\ m.uncaught = uncaught
          /\ m.kills = kills
          /\ m.pythonProcess = NULL
          /\ m.backendReady = backendReady
          /\ m.isQuitting = isQuitting
          /\ m.mainWindow = mainWindow
          /\ m.child = child
          /\ m = Cur

C8_StopIsIdempotent == C8_StopWithoutChild /\ "stopBackend" \notin uncaught

C8_Witness ==
    /\ pythonProcess = NULL
    /\ stopped # {}
    /\ kills = 1
    /\ ~isQuitting

\* C9: one child termination or one failed launch never causes two error
\* dialogs.
C9_SingleErrorDialog == ErrorDialogs <= 1

\* C10: once isQuitting is set, no health request that succeeds sets
\* backendReady to true nor leads to a main window being created.
C10_LateReadinessDiscarded ==
    [][isQuitting => (backendReady' => backendReady) /\ windows' <= windows]_vars

\* C11: when the registered child terminates while isQuitting is false, the
\* exit handler clears pythonProcess, sets backendReady to false, shows the
\* unexpected-exit dialog and requests application quit; and once any child
\* has exited, no further candidate is ever spawned.
C11_ExitStep ==
    \A c \in Children :
        (/\ pythonProcess = c
         /\ ~isQuitting
         /\ child[c].state = "running"
         /\ child'[c].state = "exited")
        => /\ pythonProcess' = NULL
           /\ backendReady' = FALSE
           /\ dialogs'.exit = dialogs.exit + 1
           /\ c \in exitNotified'
           /\ appState = "running"
           /\ appState' = "quitting"
           /\ isQuitting'

C11_NoSpawnAfterExit ==
    (\E c \in Children : child[c].state = "exited")
    => \A d \in Children : child[d].state = "none" => child'[d].state = "none"

C11_UnexpectedExitIsFatal ==
    /\ [][C11_ExitStep]_vars
    /\ [][C11_NoSpawnAfterExit]_vars

C11_Witness ==
    \E c \in exitNotified :
        /\ child[c].state = "exited"
        /\ pythonProcess = NULL
        /\ ~backendReady
        /\ dialogs.exit = 1
        /\ appState = "quitting"

\* C12: the shutdown sequence terminates the child before the supervisor
\* process exits.  Between two turns every live child that was not yet sent a
\* kill is the registered one, so that stopBackend() finds it; a child whose
\* 'spawn' event is not yet delivered is in the middle of the turn that
\* spawned it, and that turn registers it before a quit request, a signal or
\* the process exit can be handled; and whenever the supervisor process has
\* exited, every child it created that is still alive has been sent a kill.
C12_Registered ==
    ticks = <<>>
    => \A c \in Children :
          (child[c].alive /\ ~child[c].killed)
          => pythonProcess = c /\ child[c].state = "running"

C12_SpawnTurnCompletes ==
    \A c \in Children :
        (child[c].state = "pending" /\ child[c].alive)
        => /\ child'[c].state = "running"
           /\ pythonProcess' = c
           /\ UNCHANGED <<appState, isQuitting, kills>>

C12_NoOrphanAtExit ==
    appState = "exited"
    => \A c \in Children : child[c].alive => child[c].killed

C12_ShutdownKillsChild ==
    /\ [](C12_Registered /\ C12_NoOrphanAtExit)
    /\ [][C12_SpawnTurnCompletes]_vars

C12_Witness ==
    /\ appState = "exited"
    /\ launchPc = "awaitReady"
    /\ wait[LaunchWait].pc = "ping"
    /\ wait[LaunchWait].elapsed = 0
    /\ \E c \in stopped : child[c].alive /\ child[c].killed

\* C13: SIGINT, SIGTERM and the process's own exit act on a registered child
\* as a user-initiated quit does: its listeners are detached, it is sent a
\* kill, pythonProcess and backendReady are cleared (and, for the signals,
\* isQuitting is set and the application is quitting); the termination of a
\* child stopped this way never shows the unexpected-exit dialog.
C13_ShutdownStep ==
    \A c \in Children :
        (/\ pythonProcess = c
         /\ \/ lastOp' \in {"userQuit", "SIGINT", "SIGTERM"}
            \/ appState # "exited" /\ appState' = "exited")
        => /\ ~child'[c].onExit /\ ~child'[c].onSpawn /\ ~child'[c].onError
           /\ child[c].alive => child'[c].killed
           /\ kills' = IF child[c].killed THEN kills ELSE kills + 1
           /\ c \in stopped'
           /\ pythonProcess' = NULL
           /\ backendReady' = FALSE
           /\ dialogs' = dialogs
           /\ lastOp' \in {"userQuit", "SIGINT", "SIGTERM"}
              => isQuitting' /\ appState' = "quitting"

C13_SignalsShutDownLikeQuit ==
    /\ [][C13_ShutdownStep]_vars
    /\ [](\A c \in stopped : c \notin exitNotified /\ dialogs.exit = 0)

C13_Witness ==
    /\ lastOp \in {"SIGINT", "SIGTERM"}
    /\ \E c \in stopped : child[c].killed /\ child[c].alive
    /\ pythonProcess = NULL
    /\ isQuitting

\* C14: when startBackend or waitForBackendReady fails during
\* launchApplication, the startup error is shown and application quit is
\* requested; the launch is never run again and nothing is spawned afterwards;
\* a child already registered is stopped in that step if the application was
\* running, and at the latest when the process exits: then pythonProcess is
\* null, stays null, and no live child is left without a kill.
C14_FailStep ==
    (launchPc # "failed" /\ launchPc' = "failed")
    => /\ dialogs'.startup = dialogs.startup + 1
       /\ appState' \in {"quitting", "exited"}
       /\ isQuitting'
       /\ appState = "running"
          => /\ pythonProcess' = NULL
             /\ \A c \in Children : child'[c].alive => child'[c].killed

C14_AfterFailure ==
    launchPc = "failed"
    => /\ launchPc' = "failed"
       /\ \A c \in Children : child[c].state = "none" => child'[c].state = "none"
       /\ pythonProcess = NULL => pythonProcess' = NULL

C14_NothingLeftBehind ==
    (launchPc = "failed" /\ appState = "exited")
    => /\ pythonProcess = NULL
       /\ \A c \in Children : child[c].alive => child[c].killed

C14_FailedLaunchCleansUp ==
    /\ [][C14_FailStep /\ C14_AfterFailure]_vars
    /\ []C14_NothingLeftBehind

C14_Witness ==
    /\ launchPc = "failed"
    /\ appState = "exited"
    /\ wait[LaunchWait].outcome = "timeout"
    /\ \E c \in Children : child[c].alive /\ child[c].killed

Shared(m) == <<m.pythonProcess, m.backendReady, m.isQuitting, m.mainWindow>>
SharedButReady(m) == <<m.pythonProcess, m.isQuitting, m.mainWindow>>

\* what invocation w itself can do next, before its caller continues
WaitSteps(w) ==
    IF wait[w].pc = "ping"
    THEN UNION {{pingSucceeded(elapse(Cur, w, d, d), w),
                 pingFailed(elapse(Cur, w, d, d), w)} : d \in ReqDurations}
    ELSE IF wait[w].pc = "sleep"
    THEN {sleepDone(elapse(Cur, w, BACKEND_CHECK_INTERVAL_MS,
                           BACKEND_CHECK_INTERVAL_MS), w)}
    ELSE IF wait[w].pc = "idle"
    THEN {waitForBackendReady(Cur, w)}
    ELSE {}

\* C15: no step of an invocation of waitForBackendReady, whatever its outcome,
\* changes pythonProcess, backendReady, isQuitting or mainWindow.
C15_WaitMutatesNothing ==
    \A w \in Waits : \A m \in WaitSteps(w) : Shared(m) = Shared(Cur)

\* C15 (amended): a step of an invocation of waitForBackendReady never changes
\* pythonProcess, isQuitting or mainWindow; it leaves backendReady as it is
\* unless the health request succeeded, and then it sets backendReady to true.
C15_WaitOnlySetsReady ==
    \A w \in Waits : \A m \in WaitSteps(w) :
        /\ SharedButReady(m) = SharedButReady(Cur)
        /\ m.backendReady = (backendReady \/ m.wait[w].outcome = "ready")

C15_Witness ==
    \E w \in Waits :
        /\ wait[w].pc = "done"
        /\ wait[w].outcome = "ready"
        /\ backendReady

\* C16: a main window is created only in a step that ends with backendReady
\* true and that began with no main window; there is never more than one
\* window, also when two activations wait for readiness at the same time; an
\* activation handled while backendReady is true creates the window, starts no
\* wait and spawns nothing, and no activation ever spawns a child.
C16_CreateStep ==
    windows' > windows
    => /\ backendReady'
       /\ windows = 0 /\ ~mainWindow
       /\ windows' = 1 /\ mainWindow'

C16_ActivateStep ==
    activations' # activations
    => /\ UNCHANGED <<child, call, pythonProcess, kills>>
       /\ backendReady => windows' = 1 /\ wait' = wait

C16_WindowOnlyWhenReady ==
    /\ [][C16_CreateStep /\ C16_ActivateStep]_vars
    /\ [](windows <= 1 /\ (mainWindow <=> windows = 1))

C16_Witness ==
    /\ wait[2].outcome = "ready"
    /\ wait[3].outcome = "ready"
    /\ windows = 1

\* C17: of two instances started at about the same time, in either order
\* of their requestSingleInstanceLock() calls, exactly one acquires the lock:
\* the first to ask.  The instance that was refused has terminated without
\* spawning a child, creating a window or showing a dialog; a child is only
\* ever spawned by an instance that acquired the lock before; and the lock
\* holder, told of the other instance, only restores its window.
C17_OneHolder ==
    /\ Cardinality(lock) <= 1
    /\ appState \in {"running", "quitting"} => lock = {"self"}
    /\ peer = "running" => lock = {"peer"}
    /\ gotSingleInstanceLock => peer = "absent" \/ appState = "exited"

C17_RequestStep ==
    LET selfAsks == appState = "loading" /\ appState' # "loading"
        peerAsks == peer = "absent" /\ (peer' = "running" \/ lastOp' = "peerLost")
    IN /\ selfAsks => /\ gotSingleInstanceLock' = (lock = {})
                      /\ lock' = IF lock = {} THEN {"self"} ELSE lock
                      /\ appState' = IF lock = {} THEN "running" ELSE "exited"
       /\ peerAsks => /\ peer' = IF lock = {} THEN "running" ELSE "absent"
                      /\ lock' = IF lock = {} THEN {"peer"} ELSE lock
       /\ (selfAsks \/ peerAsks) => Cardinality(lock') = 1

C17_LoserDoesNothing ==
    (appState # "loading" /\ ~gotSingleInstanceLock)
    => /\ appState = "exited"
       /\ peer = "running"
       /\ launchPc = "notStarted"
       /\ \A c \in Children : child[c].state = "none"
       /\ \A k \in Calls : call[k].state = "none"
       /\ windows = 0 /\ ~mainWindow
       /\ dialogs = [exit |-> 0, startup |-> 0, load |-> 0]
       /\ ~isQuitting /\ kills = 0

C17_LockBeforeSpawn ==
    (\E c \in Children : child[c].state = "none" /\ child'[c].state # "none")
    => gotSingleInstanceLock /\ lock = {"self"}

C17_RestoreStep ==
    (minimized /\ ~minimized' /\ mainWindow')
    => UNCHANGED <<child, call, pythonProcess, backendReady, windows, dialogs,
                   appState>>

C17_SingleInstance ==
    /\ [](C17_OneHolder /\ C17_LoserDoesNothing)
    /\ [][C17_RequestStep /\ C17_LockBeforeSpawn /\ C17_RestoreStep]_vars

C17_Witness ==
    /\ appState = "exited"
    /\ ~gotSingleInstanceLock
    /\ peer = "running"
    /\ lock = {"peer"}

\* C18: the step that resolves startBackend() leaves the spawned child
\* registered with its exit handler and its output listeners attached; as
\* long as stopBackend() was not applied to it, a child whose output can be
\* consumed has its exit handler attached; and every exit of such a child is
\* observed: the step clears pythonProcess and backendReady and, unless the
\* application is quitting, reports the exit.
C18_ResolveStep ==
    \A k \in Calls :
        (call[k].state = "pending" /\ call'[k].state = "resolved")
        => \E c \in ChildrenOf(k) :
              /\ child[c].state = "pending"
              /\ ~child[c].onData
              /\ child'[c].onExit
              /\ child'[c].onData
              /\ pythonProcess' = c

C18_ListenerBeforeOutput ==
    \A c \in Children :
        /\ child[c].onData => child[c].state \in {"running", "exited"}
        /\ (child[c].state = "running" /\ c \notin stopped)
           => child[c].onData /\ child[c].onExit /\ pythonProcess = c

C18_ExitObserved ==
    \A c \in Children :
        (child[c].state = "running" /\ child'[c].state = "exited"
         /\ c \notin stopped)
        => /\ pythonProcess' = NULL
           /\ ~backendReady'
           /\ isQuitting \/ c \in exitNotified'

C18_ExitNeverMissed ==
    /\ []C18_ListenerBeforeOutput
    /\ [][C18_ResolveStep /\ C18_ExitObserved]_vars

C18_Witness ==
    \E c \in Children :
        /\ child[c].state = "exited"
        /\ child[c].onData
        /\ c \notin stopped
        /\ c \in exitNotified
        /\ pythonProcess = NULL

\* C19: in every reachable state backendReady is true only if a child is
\* registered and that child has not exited.
C19_ReadyImpliesChild ==
    backendReady
    => /\ pythonProcess # NULL
       /\ child[pythonProcess].state = "running"
       /\ ~child[pythonProcess].exitCode

\* C20: for each promise returned by startBackend(), resolve() and reject()
\* are called at most once altogether, never both; once settled it stays as it
\* is; while it is pending exactly one candidate is outstanding, with both its
\* listeners attached, and the event of that candidate either settles the
\* promise or starts the next candidate of the finite list, so that the promise
\* settles after at most as many events as there are candidates.  The last
\* two are stated, as the claim states them, for attempts that emit one of the
\* two events: a spawn() that throws emits none.
C20_AtMostOnce ==
    \A k \in Calls :
        /\ call[k].resolves + call[k].rejects <= 1
        /\ call[k].state \in {"none", "pending"}
           => call[k].resolves = 0 /\ call[k].rejects = 0
        /\ call[k].state = "resolved" => call[k].rejects = 0
        /\ call[k].state = "rejected" => call[k].resolves = 0

C20_OneOutstanding ==
    \A k \in Calls :
        (call[k].state = "pending" /\ call[k].thrown = "none")
        => \E c \in ChildrenOf(k) :
              /\ child[c].state = "pending"
              /\ child[c].onSpawn /\ child[c].onError
              /\ IdxOf(c) <= Len(candidateCommands)
              /\ \A d \in ChildrenOf(k) \ {c} : child[d].state # "pending"

C20_EventStep ==
    \A c \in Children :
        (/\ child[c].state = "pending"
         /\ child'[c].state # "pending"
         /\ call[CallOf(c)].state = "pending"
         /\ call'[CallOf(c)].thrown = "none")
        => \/ call'[CallOf(c)].state \in {"resolved", "rejected"}
           \/ /\ IdxOf(c) < Len(candidateCommands)
              /\ child'[ChildId(CallOf(c), IdxOf(c) + 1)].state = "pending"

C20_SettledStays ==
    \A k \in Calls :
        call[k].state \in {"resolved", "rejected"} => call'[k] = call[k]

C20_SettlesExactlyOnce ==
    /\ [](C20_AtMostOnce /\ C20_OneOutstanding)
    /\ [][C20_EventStep /\ C20_SettledStays]_vars

C20_Witness ==
    /\ call[1].state = "rejected"
    /\ call[1].rejects = 1
    /\ call[1].resolves = 0
    /\ child[ChildId(1, 1)].result = "ENOENT"
    /\ child[ChildId(1, 2)].result = "EACCES"

====
